---- MODULE Spec2Model ----
(***************************************************************************)
(* Model of cell_utils.                                                    *)
(*                                                                         *)
(*  - with_cell/src/lib.rs : WithCell<T>, a cell with a scoped `with`      *)
(*    callback and a thread-local intrusive borrow stack that makes        *)
(*    replace/set/take/swap panic while the cell is inside a `with`.       *)
(*  - src/lib.rs : project!, array_of_cells and ReadOnlyCell over          *)
(*    core::cell::Cell.                                                    *)
(***************************************************************************)
EXTENDS Integers, Sequences, FiniteSets, TLC

\* ------------------------------------------------------------------ bounds
NCells == 2
NThreads == 2
MaxVal == 1
MaxDepth == 3
\* N of the fixed-size array [T; N]
ArrayLen == 3
\* copies of one &WithCell made from a &mut T (shared references are Copy)
MaxCopies == 2

Cells == 1..NCells
Threads == 1..NThreads
Values == 0..MaxVal
\* T::default() of the stored type (0 for integers, "" for String)
Default == 0
NoVal == MaxVal + 1
NoCell == NCells + 1

VARIABLES
  owner,    \* owner[c] : the thread that holds cell c (WithCell is !Sync)
  val,      \* val[c]    : the T inside the UnsafeCell of cell c
  frames,   \* frames[t] : active `with` calls of thread t, outermost first
  head,     \* head[t]   : thread t's BORROW_STACK (pointer to a BorrowEntry)
  pc,       \* pc[t]     : "run", or "unwind" while a panic propagates
  ev,       \* the last call: operation, arguments, outcome, returned value
  refs,     \* the live &WithCell references made by from_mut, and their source
  mem,      \* mem[a]   : the memory word at address a (core::cell::Cell part)
  cev,      \* the last call on a core::cell::Cell reference
  view      \* the live &ReadOnlyCell, if any

wvars == <<owner, val, frames, head, pc, ev, refs>>
cvars == <<mem, cev, view>>
vars == <<owner, val, frames, head, pc, ev, refs, mem, cev, view>>

\* ------------------------------------------------- pointers and addresses
\* A BorrowEntry lives in the stack frame of the `with` call that made it:
\* its address is (thread, depth of the frame).  ptr::null() is Null.
Null == [thr |-> 0, idx |-> 0]
EntryPtr(t, i) == [thr |-> t, idx |-> i]

\* variant: one `static` BORROW_STACK, shared by all threads
BORROW_STACK_static(t) == 1

\* thread_local! { static BORROW_STACK }: the slot of `head` that code
\* running on thread t reads and writes, its own
BORROW_STACK(t) == t

\* `self as *const Self as usize`: distinct live cells, distinct addresses
AddressOf(self) == 8 * self

\* the pointer refers to a frame that has already been popped
Dangling(ptr) == ptr.idx > Len(frames[ptr.thr])
Deref(ptr) == frames[ptr.thr][ptr.idx].new_head

\* variant: the new entry does not link to the entries below it
BorrowEntryUnlinked(self, previous_head) ==
  [cell_address |-> AddressOf(self), next |-> Null]

\* BorrowEntry { cell_address, next }
BorrowEntry(self, previous_head) ==
  [cell_address |-> AddressOf(self), next |-> previous_head]

\* --------------------------------------------------- assert_not_borrowed
\* Walk of the list from a pointer.  The result is the set of possible
\* outcomes of the assertion: {TRUE} passes, {FALSE} panics; reading a
\* popped frame is undefined behaviour and may do either.
RECURSIVE WalkFrom(_, _)
WalkFrom(entry_ptr, self_address) ==
  IF entry_ptr = Null THEN {TRUE}
  ELSE IF Dangling(entry_ptr) THEN BOOLEAN
  ELSE IF Deref(entry_ptr).cell_address = self_address THEN {FALSE}
  ELSE WalkFrom(Deref(entry_ptr).next, self_address)

\* variant: compares the innermost entry only
assert_not_borrowed_top_only(t, self) ==
  IF head[BORROW_STACK(t)] = Null \/ Dangling(head[BORROW_STACK(t)]) THEN {TRUE}
  ELSE {Deref(head[BORROW_STACK(t)]).cell_address # AddressOf(self)}

\* variant: any open scope of the thread forbids every write
assert_no_open_scope(t, self) == {head[BORROW_STACK(t)] = Null}

assert_not_borrowed(t, self) == WalkFrom(head[BORROW_STACK(t)], AddressOf(self))

\* the number of `cell_address == self_address` comparisons the walk makes
\* from a pointer, up to the first match, the null link or a popped frame
RECURSIVE Comparisons(_, _)
Comparisons(entry_ptr, self_address) ==
  IF entry_ptr = Null \/ Dangling(entry_ptr) THEN 0
  ELSE IF Deref(entry_ptr).cell_address = self_address THEN 1
  ELSE 1 + Comparisons(Deref(entry_ptr).next, self_address)

\* following at most `steps` next links from a pointer, through live entries
\* only, arrives at the null link
RECURSIVE ChainEnds(_, _)
ChainEnds(entry_ptr, steps) ==
  IF entry_ptr = Null THEN TRUE
  ELSE IF steps = 0 \/ Dangling(entry_ptr) THEN FALSE
  ELSE ChainEnds(Deref(entry_ptr).next, steps - 1)

\* ------------------------------------------------ replace/set/take/swap
Result(panicked, newval, ret) ==
  [panicked |-> panicked, val |-> newval, ret |-> ret]

\* variant: hands back the value just stored
replace_returns_new(t, self, v) ==
  { IF ok THEN Result(FALSE, [val EXCEPT ![self] = v], v)
          ELSE Result(TRUE, val, NoVal) : ok \in assert_not_borrowed(t, self) }

replace(t, self, v) ==
  { IF ok THEN Result(FALSE, [val EXCEPT ![self] = v], val[self])
          ELSE Result(TRUE, val, NoVal) : ok \in assert_not_borrowed(t, self) }

set(t, self, v) == { [r EXCEPT !.ret = NoVal] : r \in replace(t, self, v) }

take(t, self) == replace(t, self, Default)

\* variant: `other` is not checked
swap_unchecked_other(t, self, other) ==
  IF AddressOf(self) = AddressOf(other)
  THEN { Result(FALSE, val, NoVal) }
  ELSE { IF ok1
         THEN Result(FALSE, [val EXCEPT ![self] = val[other],
                                        ![other] = val[self]], NoVal)
         ELSE Result(TRUE, val, NoVal)
         : ok1 \in assert_not_borrowed(t, self) }

\* variant: no ptr::eq early return
swap_no_self_check(t, self, other) ==
  UNION { IF ~ok1 THEN { Result(TRUE, val, NoVal) }
          ELSE { IF ok2
                 THEN Result(FALSE, [val EXCEPT ![self] = val[other],
                                                ![other] = val[self]], NoVal)
                 ELSE Result(TRUE, val, NoVal)
                 : ok2 \in assert_not_borrowed(t, other) }
          : ok1 \in assert_not_borrowed(t, self) }

\* variant: the values are exchanged before `other` is checked
swap_check_late(t, self, other) ==
  IF AddressOf(self) = AddressOf(other)
  THEN { Result(FALSE, val, NoVal) }
  ELSE UNION { IF ~ok1 THEN { Result(TRUE, val, NoVal) }
               ELSE { Result(~ok2, [val EXCEPT ![self] = val[other],
                                               ![other] = val[self]], NoVal)
                      : ok2 \in assert_not_borrowed(t, other) }
               : ok1 \in assert_not_borrowed(t, self) }

\* variant: `other` keeps its value (a copy instead of an exchange)
swap_overwrites(t, self, other) ==
  IF AddressOf(self) = AddressOf(other)
  THEN { Result(FALSE, val, NoVal) }
  ELSE UNION { IF ~ok1 THEN { Result(TRUE, val, NoVal) }
               ELSE { IF ok2
                      THEN Result(FALSE, [val EXCEPT ![self] = val[other]], NoVal)
                      ELSE Result(TRUE, val, NoVal)
                      : ok2 \in assert_not_borrowed(t, other) }
               : ok1 \in assert_not_borrowed(t, self) }

swap(t, self, other) ==
  IF AddressOf(self) = AddressOf(other)
  THEN { Result(FALSE, val, NoVal) }
  ELSE UNION { IF ~ok1 THEN { Result(TRUE, val, NoVal) }
               ELSE { IF ok2
                      THEN Result(FALSE, [val EXCEPT ![self] = val[other],
                                                     ![other] = val[self]], NoVal)
                      ELSE Result(TRUE, val, NoVal)
                      : ok2 \in assert_not_borrowed(t, other) }
               : ok1 \in assert_not_borrowed(t, self) }

\* variant: get() asserts not-borrowed like replace does
get_checked(t, self) ==
  { IF ok THEN Result(FALSE, val, val[self])
          ELSE Result(TRUE, val, NoVal) : ok \in assert_not_borrowed(t, self) }

\* get (T: Copy): `unsafe { *self.0.get() }`, a copy of the value, no check
get(t, self) == { Result(FALSE, val, val[self]) }

\* ------------------------------------------------------------------ with
\* The contents of thread t's borrow stack, top first, as cell addresses.
RECURSIVE ListFrom(_)
ListFrom(entry_ptr) ==
  IF entry_ptr = Null \/ Dangling(entry_ptr) THEN << >>
  ELSE <<Deref(entry_ptr).cell_address>> \o ListFrom(Deref(entry_ptr).next)

StackContents(t) == ListFrom(head[BORROW_STACK(t)])

\* variant: the new entry links to the stack slot above it, not to the
\* previous head
WithFrameLinkedUp(t, self) ==
  [self |-> self,
   kind |-> "with",
   entry_val |-> val[self],
   previous_head |-> head[BORROW_STACK(t)],
   new_head |-> BorrowEntry(self, EntryPtr(t, Len(frames[t]) + 2)),
   entry_stack |-> StackContents(t)]

\* the frame of a `with` call: previous_head and new_head are its locals;
\* kind tells a with() made by clone() from one made by the program;
\* entry_stack and entry_val are history fields, the stack contents and the
\* value of the cell just before the call
WithFrame(t, self) ==
  [self |-> self,
   kind |-> "with",
   entry_val |-> val[self],
   previous_head |-> head[BORROW_STACK(t)],
   new_head |-> BorrowEntry(self, head[BORROW_STACK(t)]),
   entry_stack |-> StackContents(t)]

Top(t) == frames[t][Len(frames[t])]
Pop(s) == SubSeq(s, 1, Len(s) - 1)

\* variant: the head is restored after f returns, not by a drop guard
OnDropOnReturnOnly(t, unwinding) ==
  IF unwinding THEN head[BORROW_STACK(t)] ELSE Top(t).previous_head

\* OnDrop(|| stack.set(previous_head)): the head that the guard of thread
\* t's innermost `with` restores when the call is left, by return or by
\* unwinding
OnDrop(t, unwinding) == Top(t).previous_head

Event(op, t, self, other, arg, panicked, ret) ==
  [op |-> op, thr |-> t, self |-> self, other |-> other, arg |-> arg,
   panicked |-> panicked, ret |-> ret]

\* No from_mut borrow is live: no source location (src = 0), no references.
\* `last` and `via` are history fields: the value last stored in the source
\* location of the latest borrow, and the copy of the reference that stored
\* it.
NoRefs == [src |-> 0, c |-> << >>, last |-> NoVal, via |-> 0]

\* WithCell<T> wraps an UnsafeCell<T>, so it is !Sync: a cell is used by one
\* thread only.  Here every cell belongs to the first thread.
InitW ==
  /\ owner = [c \in Cells |-> 1]
  /\ frames = [t \in Threads |-> << >>]
  /\ head = [t \in Threads |-> Null]
  /\ pc = [t \in Threads |-> "run"]
  /\ ev = Event("init", 0, NoCell, NoCell, NoVal, FALSE, NoVal)
  /\ refs = NoRefs

\* ================================================================ src/lib.rs
\* The composite types of the tests, as trees: a leaf is one word (i32), a
\* struct or tuple lists the types of its fields in order.
Leaf == [kind |-> "leaf", fields |-> << >>]
Struct(fields) == [kind |-> "struct", fields |-> fields]

\* (Pair, Foo) with struct Pair { a: i32, b: i32 }, struct Foo { x: i32 }.
\* Fields are laid out in declaration order; nothing below depends on the
\* order, only on the fields not overlapping.
PairType == Struct(<<Leaf, Leaf>>)
FooType == Struct(<<Leaf>>)
RootType == Struct(<<PairType, FooType>>)

RECURSIVE SizeOf(_)
SizeOf(ty) ==
  IF ty.kind = "leaf" THEN 1
  ELSE LET n == Len(ty.fields)
       IN IF n = 0 THEN 0
          ELSE SizeOf(ty.fields[n]) + SizeOf(Struct(SubSeq(ty.fields, 1, n - 1)))

\* offset of field f (1-based) inside a value of type ty: the fields before it
OffsetOf(ty, f) == SizeOf(Struct(SubSeq(ty.fields, 1, f - 1)))

\* [i32; N]: N elements of one type, laid out one after the other
Array(elem, n) == [kind |-> "array", fields |-> [i \in 1..n |-> elem]]
ArrayType == Array(Leaf, ArrayLen)

\* the cell with the composite value, one spare word on each side of it
RootAddr == 1
MaxSize == IF SizeOf(RootType) >= SizeOf(ArrayType)
           THEN SizeOf(RootType) ELSE SizeOf(ArrayType)
Addrs == 0..(RootAddr + MaxSize)

\* --- values as the program sees them: an integer, or a tuple of field values
RECURSIVE Decode(_, _)
Decode(ty, words) ==
  IF ty.kind = "leaf" THEN words[1]
  ELSE [f \in 1..Len(ty.fields) |->
          Decode(ty.fields[f],
                 SubSeq(words, OffsetOf(ty, f) + 1,
                        OffsetOf(ty, f) + SizeOf(ty.fields[f])))]

RECURSIVE Encode(_, _)
Encode(ty, v) ==
  IF ty.kind = "leaf" THEN <<v>>
  ELSE LET n == Len(ty.fields)
       IN IF n = 0 THEN << >>
          ELSE Encode(Struct(SubSeq(ty.fields, 1, n - 1)), SubSeq(v, 1, n - 1))
               \o Encode(ty.fields[n], v[n])

ValuesOf(ty) ==
  { Decode(ty, w) : w \in [1..SizeOf(ty) -> Values] }

\* variant: `.i` also selects the element i of an array
RECURSIVE PathsOfWithIndex(_)
PathsOfWithIndex(ty) ==
  {<< >>} \cup UNION { { <<f>> \o p : p \in PathsOfWithIndex(ty.fields[f]) }
                       : f \in 1..Len(ty.fields) }

\* the field paths the compiler accepts for a type ($(. $field)*): `.name`
\* and `.0` select a field of a struct or tuple; an array has no fields
RECURSIVE PathsOf(_)
PathsOf(ty) ==
  {<< >>} \cup
  (IF ty.kind = "struct"
   THEN UNION { { <<f>> \o p : p \in PathsOf(ty.fields[f]) }
                : f \in 1..Len(ty.fields) }
   ELSE {})

RECURSIVE TypeAt(_, _)
TypeAt(ty, path) ==
  IF path = << >> THEN ty ELSE TypeAt(ty.fields[Head(path)], Tail(path))

\* v.path, and v with v.path replaced by x
RECURSIVE Select(_, _)
Select(v, path) ==
  IF path = << >> THEN v ELSE Select(v[Head(path)], Tail(path))

RECURSIVE UpdateAt(_, _, _)
UpdateAt(v, path, x) ==
  IF path = << >> THEN x
  ELSE [v EXCEPT ![Head(path)] = UpdateAt(v[Head(path)], Tail(path), x)]

\* --- references: a typed address (Cell<T> has the layout of T)
TypedRef(addr, ty) == [addr |-> addr, ty |-> ty]

\* Cell::as_ptr / get_mut: the &mut T behind a &Cell<T>
get_mut(cell) == TypedRef(cell.addr, cell.ty)

\* variant: every field counted as one word wide
FieldRefByIndex(reference, f) ==
  TypedRef(reference.addr + (f - 1), reference.ty.fields[f])

\* &mut reference.$field
FieldRef(reference, f) ==
  TypedRef(reference.addr + OffsetOf(reference.ty, f), reference.ty.fields[f])

RECURSIVE FieldRefs(_, _)
FieldRefs(reference, path) ==
  IF path = << >> THEN reference
  ELSE FieldRefs(FieldRef(reference, Head(path)), Tail(path))

\* Cell::from_mut: the &Cell<U> over a &mut U
from_mut(reference) == TypedRef(reference.addr, reference.ty)

\* An expression handed to project!: `refs` layers of & over the cell place.
Expr(layers, cell) == [refs |-> layers, cell |-> cell]
AddRef(e) == Expr(e.refs + 1, e.cell)
\* variant: a && is not dereferenced but taken for the cell itself (the
\* reference variable lies in front of the cell)
CoerceWithoutDeref(e) ==
  IF e.refs > 1 THEN TypedRef(e.cell.addr - 1, e.cell.ty) ELSE e.cell

\* `let cell: &Cell<_> = $e`: a && is dereferenced down to one &
CoerceToCellRef(e) == e.cell

\* the three ways of writing the first argument in the tests
Forms == {"ident_ref", "ident_plain", "paren_expr"}
Token(form) == IF form = "paren_expr" THEN "paren" ELSE "ident"
Operand(form, cell) == IF form = "ident_plain" THEN Expr(0, cell) ELSE Expr(1, cell)

\* project!: the ident arm adds a & and re-enters at the parenthesised arm
RECURSIVE project(_, _, _)
project(token, e, path) ==
  IF token = "ident" THEN project("paren", AddRef(e), path)
  ELSE from_mut(FieldRefs(get_mut(CoerceToCellRef(e)), path))

\* Cell::set / Cell::get through a cell reference
cell_set(m, cell, x) ==
  LET words == Encode(cell.ty, x)
  IN [a \in DOMAIN m |->
        IF a >= cell.addr /\ a < cell.addr + SizeOf(cell.ty)
        THEN words[a - cell.addr + 1] ELSE m[a]]

cell_get(m, cell) ==
  Decode(cell.ty, [i \in 1..SizeOf(cell.ty) |-> m[cell.addr + i - 1]])

RootCell == TypedRef(RootAddr, RootType)

CellEvent(op, form, path, x, ret) ==
  [op |-> op, form |-> form, path |-> path, x |-> x, ret |-> ret]

\* a &ReadOnlyCell<T>: how it was made, and the typed address it holds
ViewRef(kind, addr, ty) == [kind |-> kind, addr |-> addr, ty |-> ty]
NoView == [path |-> << >>, ref |-> ViewRef("none", 0, Leaf)]

\* the addresses of the composite value
RootAddrs == RootAddr..(RootAddr + SizeOf(RootType) - 1)
RootPaths == PathsOf(RootType)

InitCell ==
  /\ val = [c \in Cells |-> Default]
  /\ InitW
  /\ \E w \in [RootAddrs -> Values] :
       mem = [a \in Addrs |-> IF a \in RootAddrs THEN w[a] ELSE Default]
  /\ cev = CellEvent("init", "none", << >>, NoVal, NoVal)
  /\ view = NoView

\* project!(cell.path).set(x)
ProjectSet(form, path, x) ==
  /\ mem' = cell_set(mem, project(Token(form), Operand(form, RootCell), path), x)
  /\ cev' = CellEvent("project_set", form, path, x, NoVal)
  /\ UNCHANGED <<wvars, view>>

\* cell.set(x) on the whole value
CellSet(x) ==
  /\ mem' = cell_set(mem, RootCell, x)
  /\ cev' = CellEvent("set", "none", << >>, x, NoVal)
  /\ UNCHANGED <<wvars, view>>

NextCell ==
  \/ \E form \in Forms, path \in RootPaths :
       \E x \in ValuesOf(TypeAt(RootType, path)) : ProjectSet(form, path, x)
  \/ \E x \in ValuesOf(RootType) : CellSet(x)

SpecCell == InitCell /\ [][NextCell]_vars

\* --------------------------------------------------------- ReadOnlyCell
\* ReadOnlyCell::from_ref: &T as &ReadOnlyCell<T>, a pointer cast
from_ref(t) == ViewRef("ref", t.addr, t.ty)

\* variant: the view is taken one word in front of the cell
from_cell_ref_misplaced(t) == ViewRef("cell", t.addr - 1, t.ty)

\* ReadOnlyCell::from_cell_ref: &Cell<T> as &ReadOnlyCell<T>, a pointer cast
from_cell_ref(t) == ViewRef("cell", t.addr, t.ty)

\* ReadOnlyCell::get (T: Copy): a copy of the value at the view's address
readonly_get(m, v) == cell_get(m, TypedRef(v.addr, v.ty))

\* the methods a &ReadOnlyCell offers, and the ways of making one
ViewOps == {"view_from_ref", "view_from_cell_ref", "view_get", "view_drop"}

\* ReadOnlyCell::from_ref(&value.path); `view` keeps the path next to the
\* reference
ViewFromRef(path) ==
  /\ view = NoView
  /\ view' = [path |-> path,
              ref |-> from_ref(FieldRefs(TypedRef(RootAddr, RootType), path))]
  /\ cev' = CellEvent("view_from_ref", "none", path, NoVal, NoVal)
  /\ UNCHANGED <<wvars, mem>>

\* ReadOnlyCell::from_cell_ref(project!(cell.path))
ViewFromCellRef(path) ==
  /\ view = NoView
  /\ view' = [path |-> path,
              ref |-> from_cell_ref(project("paren", Expr(1, RootCell), path))]
  /\ cev' = CellEvent("view_from_cell_ref", "none", path, NoVal, NoVal)
  /\ UNCHANGED <<wvars, mem>>

ViewGet ==
  /\ view # NoView
  /\ cev' = CellEvent("view_get", "none", view.path, NoVal,
                      readonly_get(mem, view.ref))
  /\ UNCHANGED <<wvars, mem, view>>

\* the view is no longer used
ViewDrop ==
  /\ view # NoView
  /\ view' = NoView
  /\ cev' = CellEvent("view_drop", "none", << >>, NoVal, NoVal)
  /\ UNCHANGED <<wvars, mem>>

\* cell.set(x) through the Cell; while a view made from a plain &T lives,
\* the borrow checker admits no Cell over the value and no write to it
ViewCellSet(x) ==
  /\ view.ref.kind # "ref"
  /\ mem' = cell_set(mem, RootCell, x)
  /\ cev' = CellEvent("view_cell_set", "none", << >>, x, NoVal)
  /\ UNCHANGED <<wvars, view>>

NextView ==
  \/ \E path \in RootPaths : ViewFromRef(path)
  \/ \E path \in RootPaths : ViewFromCellRef(path)
  \/ ViewGet
  \/ ViewDrop
  \/ \E x \in ValuesOf(RootType) : ViewCellSet(x)

SpecView == InitCell /\ [][NextView]_vars

\* ------------------------------------------------------- array_of_cells
\* &Cell<[T; N]> as &[Cell<T>; N]: a pointer cast, same address
array_of_cells(cell) == TypedRef(cell.addr, Array(cell.ty.fields[1], Len(cell.ty.fields)))

\* variant: elements counted from one
ElementRefOneBased(array, i) ==
  TypedRef(array.addr + (i + 1) * SizeOf(array.ty.fields[1]), array.ty.fields[1])

\* array[i], i counted from zero: the i-th Cell<T> of a &[Cell<T>; N]
ElementRef(array, i) ==
  TypedRef(array.addr + i * SizeOf(array.ty.fields[1]), array.ty.fields[1])

ArrayCell == TypedRef(RootAddr, ArrayType)
ArrayAddrs == RootAddr..(RootAddr + SizeOf(ArrayType) - 1)
ArrayIndices == 0..(ArrayLen - 1)
ArrayPaths == PathsOf(ArrayType)

\* the array read through the original cell
ArrayValue(m) == cell_get(m, ArrayCell)

InitArray ==
  /\ val = [c \in Cells |-> Default]
  /\ InitW
  /\ \E w \in [ArrayAddrs -> Values] :
       mem = [a \in Addrs |-> IF a \in ArrayAddrs THEN w[a] ELSE Default]
  /\ cev = CellEvent("init", "none", << >>, NoVal, NoVal)
  /\ view = NoView

\* array_of_cells(&cell)[i].set(x); array_of_cells(&cell)[i].get()
ArraySet(i, x) ==
  /\ mem' = cell_set(mem, ElementRef(array_of_cells(ArrayCell), i), x)
  /\ cev' = CellEvent("array_set", "none", <<i>>, x,
                      cell_get(mem', ElementRef(array_of_cells(ArrayCell), i)))
  /\ UNCHANGED <<wvars, view>>

\* cell.set(x) on the whole array
ArrayCellSet(x) ==
  /\ mem' = cell_set(mem, ArrayCell, x)
  /\ cev' = CellEvent("array_cell_set", "none", << >>, x, NoVal)
  /\ UNCHANGED <<wvars, view>>

\* project!(cell.i).set(x) on the array: the selector `.i` is accepted only
\* if the type has such a field; otherwise the program is rejected by the
\* compiler and nothing runs
ArrayProject(form, i, x) ==
  /\ IF <<i + 1>> \in ArrayPaths
     THEN /\ mem' = cell_set(mem, project(Token(form), Operand(form, ArrayCell),
                                          <<i + 1>>), x)
          /\ cev' = CellEvent("array_project_set", form, <<i>>, x, NoVal)
     ELSE /\ mem' = mem
          /\ cev' = CellEvent("array_project_rejected", form, <<i>>, x, NoVal)
  /\ UNCHANGED <<wvars, view>>

NextArray ==
  \/ \E i \in ArrayIndices, x \in Values : ArraySet(i, x)
  \/ \E x \in ValuesOf(ArrayType) : ArrayCellSet(x)
  \/ \E form \in Forms, i \in ArrayIndices, x \in Values : ArrayProject(form, i, x)

SpecArray == InitArray /\ [][NextArray]_vars

\* the composite value read through the original cell
RootValue(m) == cell_get(m, RootCell)

\* ======================================================= with_cell/src/lib.rs
Init ==
  /\ val \in [Cells -> Values]
  /\ InitW
  /\ mem = [a \in Addrs |-> Default]
  /\ cev = CellEvent("init", "none", << >>, NoVal, NoVal)
  /\ view = NoView

\* variant: with() refuses a cell whose address is on the borrow stack
with_checked(t, self) ==
  { IF ok
    THEN [panicked |-> FALSE,
          frames |-> [frames EXCEPT ![t] = Append(@, WithFrame(t, self))],
          head |-> [head EXCEPT ![BORROW_STACK(t)] = EntryPtr(t, Len(frames[t]) + 1)]]
    ELSE [panicked |-> TRUE, frames |-> frames, head |-> head]
    : ok \in assert_not_borrowed(t, self) }

\* with(): push the entry and call f; the possible outcomes of the entry
with(t, self) ==
  { [panicked |-> FALSE,
     frames |-> [frames EXCEPT ![t] = Append(@, WithFrame(t, self))],
     head |-> [head EXCEPT ![BORROW_STACK(t)] = EntryPtr(t, Len(frames[t]) + 1)]] }

\* variant: clone() copies the value out without going through with()
clone_unscoped(t, self) ==
  { [panicked |-> FALSE,
     frames |-> [frames EXCEPT
                   ![t] = Append(@, [WithFrame(t, self) EXCEPT !.kind = "clone"])],
     head |-> head] }

\* clone(): self.with(|t| t.clone()); the possible outcomes of the entry
clone(t, self) ==
  { IF r.panicked THEN r
    ELSE [r EXCEPT !.frames[t][Len(r.frames[t])].kind = "clone"]
    : r \in with(t, self) }

WithEnter(t, self) ==
  /\ pc[t] = "run"
  /\ owner[self] = t
  /\ Len(frames[t]) < MaxDepth
  /\ \E r \in with(t, self) :
       /\ frames' = r.frames
       /\ head' = r.head
       /\ pc' = [pc EXCEPT ![t] = IF r.panicked THEN "unwind" ELSE "run"]
       /\ ev' = Event("with", t, self, NoCell, NoVal, r.panicked, NoVal)
  /\ UNCHANGED <<owner, refs, val, cvars>>

\* f returns: _on_drop runs, with() returns f's result
WithReturn(t) ==
  /\ pc[t] = "run"
  /\ frames[t] # << >>
  /\ Top(t).kind = "with"
  /\ head' = [head EXCEPT ![BORROW_STACK(t)] = OnDrop(t, FALSE)]
  /\ frames' = [frames EXCEPT ![t] = Pop(@)]
  /\ ev' = Event("with_return", t, Top(t).self, NoCell, NoVal, FALSE, NoVal)
  /\ UNCHANGED <<owner, refs, val, pc, cvars>>

\* clone() is called: with() pushes the entry and T::clone starts
CloneEnter(t, self) ==
  /\ pc[t] = "run"
  /\ owner[self] = t
  /\ Len(frames[t]) < MaxDepth
  /\ \E r \in clone(t, self) :
       /\ frames' = r.frames
       /\ head' = r.head
       /\ pc' = [pc EXCEPT ![t] = IF r.panicked THEN "unwind" ELSE "run"]
       /\ ev' = Event("clone", t, self, NoCell, NoVal, r.panicked, NoVal)
  /\ UNCHANGED <<owner, refs, val, cvars>>

\* T::clone returns the copy of the value: _on_drop runs, clone() returns it
CloneReturn(t) ==
  /\ pc[t] = "run"
  /\ frames[t] # << >>
  /\ Top(t).kind = "clone"
  /\ head' = [head EXCEPT ![BORROW_STACK(t)] = OnDrop(t, FALSE)]
  /\ frames' = [frames EXCEPT ![t] = Pop(@)]
  /\ ev' = Event("clone_return", t, Top(t).self, NoCell, NoVal, FALSE,
                 val[Top(t).self])
  /\ UNCHANGED <<owner, refs, val, pc, cvars>>

\* a panic leaves with(): _on_drop runs during unwinding
WithUnwind(t) ==
  /\ pc[t] = "unwind"
  /\ frames[t] # << >>
  /\ head' = [head EXCEPT ![BORROW_STACK(t)] = OnDrop(t, TRUE)]
  /\ frames' = [frames EXCEPT ![t] = Pop(@)]
  /\ ev' = Event("with_unwind", t, Top(t).self, NoCell, NoVal, TRUE, NoVal)
  /\ UNCHANGED <<owner, refs, val, pc, cvars>>

\* the callback itself fails
Panic(t) ==
  /\ pc[t] = "run"
  /\ frames[t] # << >>
  /\ pc' = [pc EXCEPT ![t] = "unwind"]
  /\ ev' = Event("panic", t, NoCell, NoCell, NoVal, TRUE, NoVal)
  /\ UNCHANGED <<owner, refs, val, frames, head, cvars>>

\* the caller (at any depth) catches the panic and goes on
Catch(t) ==
  /\ pc[t] = "unwind"
  /\ pc' = [pc EXCEPT ![t] = "run"]
  /\ ev' = Event("catch", t, NoCell, NoCell, NoVal, FALSE, NoVal)
  /\ UNCHANGED <<owner, refs, val, frames, head, cvars>>

Call(op, t, self, other, arg, r) ==
  /\ val' = r.val
  /\ pc' = [pc EXCEPT ![t] = IF r.panicked THEN "unwind" ELSE "run"]
  /\ ev' = Event(op, t, self, other, arg, r.panicked, r.ret)
  /\ UNCHANGED <<owner, refs, frames, head, cvars>>

Replace(t, self, v) ==
  /\ pc[t] = "run"
  /\ owner[self] = t
  /\ \E r \in replace(t, self, v) : Call("replace", t, self, NoCell, v, r)

Set(t, self, v) ==
  /\ pc[t] = "run"
  /\ owner[self] = t
  /\ \E r \in set(t, self, v) : Call("set", t, self, NoCell, v, r)

Take(t, self) ==
  /\ pc[t] = "run"
  /\ owner[self] = t
  /\ \E r \in take(t, self) : Call("take", t, self, NoCell, NoVal, r)

Swap(t, self, other) ==
  /\ pc[t] = "run"
  /\ owner[self] = t
  /\ owner[other] = t
  /\ \E r \in swap(t, self, other) : Call("swap", t, self, other, NoVal, r)

Get(t, self) ==
  /\ pc[t] = "run"
  /\ owner[self] = t
  /\ \E r \in get(t, self) : Call("get", t, self, NoCell, NoVal, r)

\* -------------------------------------------------------------- from_mut
\* the storage location at an address
CellAt(address) == CHOOSE c \in Cells : AddressOf(c) = address

\* variant: the container is a new one that holds a copy of the value
WithCell_from_mut_copy(t_address) ==
  AddressOf((CellAt(t_address) % NCells) + 1)

\* WithCell::from_mut: `&*(t as *mut T as *const WithCell<T>)`, the address
\* of the &mut T taken as the address of a WithCell<T>
WithCell_from_mut(t_address) == t_address

\* let c1 = WithCell::from_mut(&mut x)
FromMut(t, x) ==
  /\ pc[t] = "run"
  /\ owner[x] = t
  /\ refs.src = 0
  /\ refs' = [src |-> AddressOf(x),
              c |-> <<WithCell_from_mut(AddressOf(x))>>,
              last |-> val[x], via |-> 0]
  /\ ev' = Event("from_mut", t, x, NoCell, NoVal, FALSE, NoVal)
  /\ UNCHANGED <<owner, val, frames, head, pc, cvars>>

\* let c2 = c1
CopyRef(t) ==
  /\ pc[t] = "run"
  /\ refs.src # 0
  /\ Len(refs.c) < MaxCopies
  /\ refs' = [refs EXCEPT !.c = Append(@, refs.c[1])]
  /\ ev' = Event("copy_ref", t, CellAt(refs.src), NoCell, NoVal, FALSE, NoVal)
  /\ UNCHANGED <<owner, val, frames, head, pc, cvars>>

\* c.set(v) through the i-th copy of the reference
RefSet(t, i, v) ==
  /\ pc[t] = "run"
  /\ i \in 1..Len(refs.c)
  /\ \E r \in set(t, CellAt(refs.c[i]), v) :
       /\ val' = r.val
       /\ pc' = [pc EXCEPT ![t] = IF r.panicked THEN "unwind" ELSE "run"]
       /\ refs' = IF r.panicked THEN refs
                  ELSE [refs EXCEPT !.last = v, !.via = i]
       /\ ev' = Event("ref_set", t, CellAt(refs.c[i]), NoCell, v, r.panicked, NoVal)
  /\ UNCHANGED <<owner, frames, head, cvars>>

\* c.get() through the i-th copy of the reference; ev.arg is i
RefGet(t, i) ==
  /\ pc[t] = "run"
  /\ i \in 1..Len(refs.c)
  /\ \E r \in get(t, CellAt(refs.c[i])) :
       /\ pc' = [pc EXCEPT ![t] = IF r.panicked THEN "unwind" ELSE "run"]
       /\ ev' = Event("ref_get", t, CellAt(refs.c[i]), NoCell, i, r.panicked, r.ret)
  /\ UNCHANGED <<owner, refs, val, frames, head, cvars>>

\* the references are no longer used and x is read again; ev.arg is the
\* value last stored, ev.ret the value of x
Release(t) ==
  /\ pc[t] = "run"
  /\ refs.src # 0
  /\ refs' = [NoRefs EXCEPT !.last = refs.last, !.via = refs.via]
  /\ ev' = Event("release", t, CellAt(refs.src), NoCell, refs.last, FALSE,
                 val[CellAt(refs.src)])
  /\ UNCHANGED <<owner, val, frames, head, pc, cvars>>

NextFromMut ==
  \/ \E t \in Threads, x \in Cells : FromMut(t, x)
  \/ \E t \in Threads : CopyRef(t)
  \/ \E t \in Threads, i \in 1..MaxCopies, v \in Values : RefSet(t, i, v)
  \/ \E t \in Threads, i \in 1..MaxCopies : RefGet(t, i)
  \/ \E t \in Threads : Release(t)

SpecFromMut == Init /\ [][NextFromMut]_vars

\* the active `with` calls of thread t that borrow cell c
ScopesOn(t, c) == { i \in 1..Len(frames[t]) : frames[t][i].self = c }
InScope(c) == \E t \in Threads : ScopesOn(t, c) # {}

Next ==
  \/ \E t \in Threads, c \in Cells : WithEnter(t, c)
  \/ \E t \in Threads : WithReturn(t)
  \/ \E t \in Threads : WithUnwind(t)
  \/ \E t \in Threads : Panic(t)
  \/ \E t \in Threads : Catch(t)
  \/ \E t \in Threads, c \in Cells, v \in Values : Replace(t, c, v)
  \/ \E t \in Threads, c \in Cells, v \in Values : Set(t, c, v)
  \/ \E t \in Threads, c \in Cells : Take(t, c)
  \/ \E t \in Threads, c \in Cells, d \in Cells : Swap(t, c, d)
  \/ \E t \in Threads, c \in Cells : Get(t, c)

Spec == Init /\ [][Next]_vars

\* programs that also clone: T::clone is code of the stored type and may
\* itself open scopes, clone, or try to set a cell; a panic is not caught
\* (no catch_unwind) and unwinds the thread to the bottom
NextClone ==
  \/ \E t \in Threads, c \in Cells : WithEnter(t, c)
  \/ \E t \in Threads : WithReturn(t)
  \/ \E t \in Threads, c \in Cells : CloneEnter(t, c)
  \/ \E t \in Threads : CloneReturn(t)
  \/ \E t \in Threads : WithUnwind(t)
  \/ \E t \in Threads, c \in Cells, v \in Values : Set(t, c, v)

SpecClone == Init /\ [][NextClone]_vars

\* several threads, each with cells of its own (a WithCell is !Sync, so no
\* cell is used by two threads): the cells are dealt out to the threads in
\* turn
InitThreads ==
  /\ owner = [c \in Cells |-> ((c - 1) % NThreads) + 1]
  /\ val = [c \in Cells |-> Default]
  /\ frames = [t \in Threads |-> << >>]
  /\ head = [t \in Threads |-> Null]
  /\ pc = [t \in Threads |-> "run"]
  /\ ev = Event("init", 0, NoCell, NoCell, NoVal, FALSE, NoVal)
  /\ refs = NoRefs
  /\ mem = [a \in Addrs |-> Default]
  /\ cev = CellEvent("init", "none", << >>, NoVal, NoVal)
  /\ view = NoView

NextThreads ==
  \/ \E t \in Threads, c \in Cells : WithEnter(t, c)
  \/ \E t \in Threads : WithReturn(t)
  \/ \E t \in Threads : WithUnwind(t)
  \/ \E t \in Threads : Catch(t)
  \/ \E t \in Threads, c \in Cells, v \in Values : Set(t, c, v)

SpecThreads == InitThreads /\ [][NextThreads]_vars

TypeOK ==
  /\ owner \in [Cells -> Threads]
  /\ val \in [Cells -> Values]
  /\ \A t \in Threads : Len(frames[t]) <= MaxDepth
  /\ \A t \in Threads : pc[t] \in {"run", "unwind"}

\* ------------------------------------------------------------ properties
MutOps == {"replace", "set", "take", "swap"}

\* C1: while a scope on cell c is open, no step changes the value of c
\* (whatever the callback calls, on any cell): the value during the scope
\* is the value at its opening.
C1_ValueFixedInScope ==
  [][\A c \in Cells : InScope(c) => val'[c] = val[c]]_vars

\* some scope on a cell is open and a swap naming that cell as its second
\* argument has just been attempted from inside it
C1_Witness ==
  /\ ev.op = "swap"
  /\ ev.self # ev.other
  /\ InScope(ev.other)
  /\ ~InScope(ev.self)

\* C2: replace, set, take and swap with a different cell, called on a cell
\* that is in an open scope of the calling thread, panic, wherever on the
\* stack the scope is.
C2_MutationInScopePanics ==
  \A c \in Cells :
    ( /\ ev.op \in MutOps
      /\ c \in {ev.self, ev.other}
      /\ ev.self # ev.other
      /\ ScopesOn(ev.thr, c) # {} )
    => (ev.panicked /\ pc[ev.thr] = "unwind")

\* a set on the cell of the middle one of three nested scopes has panicked
C2_Witness ==
  /\ ev.op = "set"
  /\ ev.panicked
  /\ Len(frames[ev.thr]) = 3
  /\ ScopesOn(ev.thr, ev.self) = {2}

\* C3: replace and set on a cell d that no open scope of the calling thread
\* borrows do not panic and store the new value in d, however many scopes on
\* other cells are open.
C3_UnrelatedWriteSucceeds ==
  ( /\ ev.op \in {"replace", "set"}
    /\ ScopesOn(ev.thr, ev.self) = {} )
  => ( /\ ~ev.panicked
       /\ pc[ev.thr] = "run"
       /\ val[ev.self] = ev.arg )

\* a set has succeeded inside two nested scopes on other cells
C3_Witness ==
  /\ ev.op = "set"
  /\ ~ev.panicked
  /\ Len(frames[ev.thr]) >= 2
  /\ ScopesOn(ev.thr, ev.self) = {}
  /\ val[ev.self] = ev.arg

C5_StackRestored ==
  [][\A t \in Threads :
       Len(frames'[t]) < Len(frames[t])
       => ( /\ StackContents(t)' = Top(t).entry_stack
            /\ StackContents(t) = <<AddressOf(Top(t).self)>> \o StackContents(t)' )]_vars

\* a with() call has been left by a panic and outer scopes are still open
C5_Witness ==
  /\ ev.op = "with_unwind"
  /\ pc[ev.thr] = "unwind"
  /\ Len(frames[ev.thr]) >= 1
  /\ StackContents(ev.thr) # << >>

\* C6: swap of a cell with itself does not panic and changes no value, also
\* inside a scope on that cell.
C6_SwapSelf ==
  [][(ev'.op = "swap" /\ ev'.self = ev'.other)
       => (~ev'.panicked /\ pc'[ev'.thr] = "run" /\ val' = val)]_vars

\* a cell has been swapped with itself inside a scope on it
C6_Witness ==
  /\ ev.op = "swap"
  /\ ev.self = ev.other
  /\ ScopesOn(ev.thr, ev.self) # {}
  /\ ~ev.panicked

\* C7: a replace, set, take or swap that panics has changed no value.
C7_RefusedChangesNothing ==
  [][(ev'.op \in MutOps /\ ev'.panicked) => val' = val]_vars

\* a swap has panicked on its second argument, the first one being free,
\* and the two cells hold different values
C7_Witness ==
  /\ ev.op = "swap"
  /\ ev.panicked
  /\ ScopesOn(ev.thr, ev.self) = {}
  /\ ScopesOn(ev.thr, ev.other) # {}
  /\ val[ev.self] # val[ev.other]

\* C8: on a cell in no open scope, replace(v) returns the value held before
\* and leaves v in the cell; take() returns the value held before and
\* leaves the default value; no other cell changes.
C8_ReplaceTake ==
  [][(ev'.op \in {"replace", "take"} /\ ScopesOn(ev'.thr, ev'.self) = {})
       => ( /\ ~ev'.panicked
            /\ ev'.ret = val[ev'.self]
            /\ val' = [val EXCEPT ![ev'.self] =
                         IF ev'.op = "take" THEN Default ELSE ev'.arg] )]_vars

\* take() has returned a value other than the default and left the default
C8_Witness ==
  /\ ev.op = "take"
  /\ ~ev.panicked
  /\ ev.ret # Default
  /\ val[ev.self] = Default

C10_ProjectSet ==
  [][(cev'.op = "project_set")
       => ( /\ Select(RootValue(mem'), cev'.path) = cev'.x
            /\ RootValue(mem') = UpdateAt(RootValue(mem), cev'.path, cev'.x)
            /\ \A a \in Addrs \ RootAddrs : mem'[a] = mem[a] )]_vars

\* a set through the projection of the second field's inner field, the cell
\* written as a plain variable, has changed that field, and some other field
\* holds a different value
C10_Witness ==
  /\ cev.op = "project_set"
  /\ cev.form = "ident_plain"
  /\ cev.path = <<2, 1>>
  /\ RootValue(mem)[2][1] = cev.x
  /\ RootValue(mem)[1][1] # cev.x
  /\ RootValue(mem)[1][2] # cev.x

\* C11 (SpecArray): after array_of_cells(c)[i].set(x), get() on the same
\* element returns x, the array read through c has x at index i and its
\* other elements, and the memory around the cell, are as before.
C11_ArrayElementSet ==
  [][(cev'.op = "array_set")
       => LET i == cev'.path[1]
          IN /\ cev'.ret = cev'.x
             /\ ArrayValue(mem')[i + 1] = cev'.x
             /\ \A j \in ArrayIndices \ {i} :
                  ArrayValue(mem')[j + 1] = ArrayValue(mem)[j + 1]
             /\ \A a \in Addrs \ ArrayAddrs : mem'[a] = mem[a]]_vars

\* the last element has been set to a value that the other elements do not
\* hold
C11_Witness ==
  /\ cev.op = "array_set"
  /\ cev.path = <<ArrayLen - 1>>
  /\ ArrayValue(mem)[ArrayLen] = cev.x
  /\ \A j \in 1..(ArrayLen - 1) : ArrayValue(mem)[j] # cev.x

C15_ProjectSelf ==
  [][ /\ (cev'.op = "project_set" /\ cev'.path = << >>)
         => cell_get(mem', RootCell) = cev'.x
      /\ (cev'.op = "set")
         => \A form \in Forms :
              cell_get(mem', project(Token(form), Operand(form, RootCell), << >>))
                = cev'.x ]_vars

\* a value with unequal fields has been set through project!(x), x being a
\* variable that holds a reference to the cell
C15_Witness ==
  /\ cev.op = "project_set"
  /\ cev.path = << >>
  /\ cev.form = "ident_ref"
  /\ cev.x[1][1] # cev.x[2][1]
  /\ RootValue(mem) = cev.x

\* C14 (SpecView): making, reading and dropping a read-only view change no
\* memory; get() on a view made from a reference to the cell of the value
\* at some path returns the value found at that path through the original
\* cell at that moment; and a value set through the original cell while the
\* view lives is the value the view reads.
C14_ReadOnlyView ==
  [][ /\ (cev'.op \in ViewOps) => mem' = mem
      /\ (cev'.op = "view_get" /\ view.ref.kind = "cell")
         => cev'.ret = Select(RootValue(mem), view.path)
      /\ (cev'.op = "view_cell_set" /\ view.ref.kind = "cell")
         => readonly_get(mem', view'.ref) = Select(cev'.x, view.path) ]_vars

\* get() on a view made from the reference to the whole cell has returned
\* the value of the cell, a value with unequal fields
C14_Witness ==
  /\ cev.op = "view_get"
  /\ view.ref.kind = "cell"
  /\ view.path = << >>
  /\ cev.ret = RootValue(mem)
  /\ cev.ret[1][1] # cev.ret[1][2]
  /\ cev.ret[1][2] # cev.ret[2][1]
\* C19: get() on a cell never panics, also inside a scope on that cell; it
\* returns the value the cell holds and changes no stored value, no frame
\* and no borrow stack.
C19_GetIsUnchecked ==
  [][(ev'.op = "get")
       => ( /\ ~ev'.panicked
            /\ pc' = pc
            /\ ev'.ret = val[ev'.self]
            /\ val' = val
            /\ frames' = frames
            /\ head' = head )]_vars

\* get() has returned the value of a cell from inside two nested scopes on
\* that same cell
C19_Witness ==
  /\ ev.op = "get"
  /\ ~ev.panicked
  /\ Cardinality(ScopesOn(ev.thr, ev.self)) >= 2
  /\ ev.ret = val[ev.self]
  /\ pc[ev.thr] = "run"
\* the container addresses of the active with calls of thread t, innermost
\* first
ActiveAddresses(t) ==
  [i \in 1..Len(frames[t]) |-> AddressOf(frames[t][Len(frames[t]) + 1 - i].self)]

\* C16: in every reachable state the borrow stack of a thread, read from the
\* head, lists exactly the cell addresses of the thread's active with calls,
\* innermost first, one entry per call: the head points to the entry of the
\* innermost call (null when there is none), every entry links to the entry
\* of the call below it, an address is on the stack iff a scope on that cell
\* is open, and the stack is empty when no scope is open.
C16_StackIsLifoImage ==
  \A t \in Threads :
    /\ StackContents(t) = ActiveAddresses(t)
    /\ head[t] = IF frames[t] = << >> THEN Null ELSE EntryPtr(t, Len(frames[t]))
    /\ \A i \in 1..Len(frames[t]) :
         frames[t][i].new_head.next = IF i = 1 THEN Null ELSE EntryPtr(t, i - 1)
    /\ \A c \in Cells :
         (\E k \in 1..Len(StackContents(t)) : StackContents(t)[k] = AddressOf(c))
         <=> (ScopesOn(t, c) # {})
    /\ (frames[t] = << >>) => (StackContents(t) = << >>)

\* an inner with call has been left by a panic while two scopes on
\* different cells remain open below it
C16_Witness ==
  /\ ev.op = "with_unwind"
  /\ Len(frames[ev.thr]) = 2
  /\ frames[ev.thr][1].self # frames[ev.thr][2].self
  /\ StackContents(ev.thr) = <<AddressOf(frames[ev.thr][2].self),
                               AddressOf(frames[ev.thr][1].self)>>
\* C18: on every reachable borrow stack the chain of next links from the
\* head reaches the null link within as many links as scopes are open, every
\* link leads to the entry of an older call (so the chain has no cycle), and
\* the walk for any cell address makes at most as many comparisons as scopes
\* are open: none when no scope is open.
C18_WalkTerminates ==
  \A t \in Threads :
    /\ ChainEnds(head[t], Len(frames[t]))
    /\ \A i \in 1..Len(frames[t]) : frames[t][i].new_head.next.idx < i
    /\ \A c \in Cells :
         /\ Comparisons(head[t], AddressOf(c)) <= Len(frames[t])
         /\ (frames[t] = << >>) => (Comparisons(head[t], AddressOf(c)) = 0)

\* a set on a cell outside all of several open scopes has walked the whole
\* stack, one comparison per open scope, and succeeded
C18_Witness ==
  /\ ev.op = "set"
  /\ ~ev.panicked
  /\ Len(frames[ev.thr]) >= 2
  /\ Comparisons(head[ev.thr], AddressOf(ev.self)) = Len(frames[ev.thr])
\* C13 (SpecFromMut): from_mut makes no copy: the reference it returns has
\* the address of the borrowed location and the call stores nothing; a value
\* set through any copy of the reference is the value every copy reads and
\* the value of the borrowed location; get() through any copy returns the
\* value last stored; and when the references are no longer used the
\* borrowed location holds the value last stored through them.
C13_FromMutInPlace ==
  [][ /\ (ev'.op = "from_mut")
         => (refs'.c[1] = refs'.src /\ val' = val)
      /\ (ev'.op = "ref_set")
         => ( /\ ~ev'.panicked
              /\ \A i \in 1..Len(refs'.c) : val'[CellAt(refs'.c[i])] = ev'.arg
              /\ val'[CellAt(refs'.src)] = ev'.arg )
      /\ (ev'.op = "ref_get") => (ev'.ret = refs.last)
      /\ (ev'.op = "release") => (ev'.ret = refs.last /\ val' = val) ]_vars

\* the borrowed location has been read, after the references were dropped,
\* with a value that was stored through the second copy of the reference
\* and differs from the value of another cell
C13_Witness ==
  /\ ev.op = "release"
  /\ refs.via = 2
  /\ ev.ret = refs.last
  /\ val[ev.self] = ev.ret
  /\ \E c \in Cells : val[c] # ev.ret
\* how many times an address occurs in a list of addresses
Occurrences(list, address) ==
  Cardinality({ k \in 1..Len(list) : list[k] = address })

\* the active clone() calls of thread t on cell c
ClonesOn(t, c) == { i \in ScopesOn(t, c) : frames[t][i].kind = "clone" }

\* C20 (SpecClone): clone() on cell c never panics and puts c's address on
\* top of the borrow stack, a second time when c already is in an open
\* scope; while a clone() of c is active c's address is on the stack and a
\* set on c panics and stores nothing; when clone() returns it returns the
\* value c holds, which is the value c held at the call, changes no value and
\* leaves the borrow stack as it was before the call.
C20_CloneIsScope ==
  [][\A t \in Threads, c \in Cells :
       /\ (ev'.op = "clone" /\ ev'.thr = t /\ ev'.self = c)
          => ( /\ ~ev'.panicked
               /\ pc'[t] = "run"
               /\ StackContents(t)' # << >>
               /\ Head(StackContents(t)') = AddressOf(c)
               /\ Occurrences(StackContents(t)', AddressOf(c))
                    = Cardinality(ScopesOn(t, c)) + 1 )
       /\ (ClonesOn(t, c) # {})
          => Occurrences(StackContents(t), AddressOf(c)) >= 1
       /\ (ev'.op = "set" /\ ev'.thr = t /\ ev'.self = c /\ ClonesOn(t, c) # {})
          => (ev'.panicked /\ val' = val)
       /\ (ev'.op = "clone_return" /\ ev'.thr = t /\ ev'.self = c)
          => ( /\ ~ev'.panicked
               /\ ev'.ret = val[c]
               /\ ev'.ret = Top(t).entry_val
               /\ val' = val
               /\ StackContents(t)' = Top(t).entry_stack ) ]_vars

\* clone() of a cell has returned inside the callback of a with() on that
\* same cell, whose scope is still open
C20_Witness ==
  /\ ev.op = "clone_return"
  /\ ~ev.panicked
  /\ ev.ret = val[ev.self]
  /\ frames[ev.thr] # << >>
  /\ Top(ev.thr).kind = "with"
  /\ Top(ev.thr).self = ev.self
\* C17 (SpecThreads): a step of thread t leaves the borrow stack, the
\* frames and the state of every other thread unchanged; with() pushes the
\* entry on the calling thread's own stack; and whether a set panics is
\* decided by the calling thread's own open scopes alone, whatever scopes
\* other threads have open.
C17_StacksPerThread ==
  [][\A t \in Threads :
       (ev'.thr = t)
       => ( /\ \A u \in Threads \ {t} :
                 /\ head'[u] = head[u]
                 /\ frames'[u] = frames[u]
                 /\ pc'[u] = pc[u]
                 /\ StackContents(u)' = StackContents(u)
            /\ \A c \in Cells :
                 /\ (ev'.op = "with" /\ ev'.self = c)
                    => StackContents(t)' = <<AddressOf(c)>> \o StackContents(t)
                 /\ (ev'.op = "set" /\ ev'.self = c)
                    => (ev'.panicked <=> (ScopesOn(t, c) # {})) )]_vars

\* a set by one thread has succeeded while another thread has two scopes
\* open
C17_Witness ==
  /\ ev.op = "set"
  /\ ~ev.panicked
  /\ val[ev.self] = ev.arg
  /\ \E u \in Threads \ {ev.thr} :
       /\ Len(frames[u]) >= 2
       /\ StackContents(u) # << >>
====
